---- MODULE Spec2Model ----
(***************************************************************************)
(* DGIdb MCP server (src/src/index.ts): the two tools of DGIdbMCP,         *)
(* dgidb_graphql_query (stage) and dgidb_query_sql (query), the upstream   *)
(* GraphQL API they call, and the JsonToSqlDO Durable Objects they reach   *)
(* through env.JSON_TO_SQL_DO.  A tool invocation is a record of `calls`;  *)
(* it advances at the points where the handler awaits (the upstream fetch, *)
(* the stub.fetch to the Durable Object), so invocations interleave the    *)
(* way the handlers' promises do.                                          *)
(*                                                                         *)
(* do.ts (JsonToSqlDO) is imported by index.ts but is not among the        *)
(* sources; the definitions named DO... model it from the specification.   *)
(***************************************************************************)
EXTENDS Integers, Sequences, FiniteSets, TLC

VARIABLES
    calls,      \* the tool invocations so far, in the order they were made
    stores,     \* Durable Object id -> the embedded store of that instance
    binding,    \* whether env.JSON_TO_SQL_DO is bound in this deployment
    failStatus, \* whether JsonToSqlDO reports a failure by a non-OK response
                \* (TRUE) or by an OK response whose body says so (FALSE)
    doLog,      \* SpecDO only: the requests one instance has handled
    edges,      \* SpecClassify only: the nestings found in one staging batch
    observed,   \* SpecUnify only: the values observed for one column
    colType     \* SpecUnify only: the column's type after those values

vars == <<calls, stores, binding, failStatus, doLog, edges, observed, colType>>

\* The state of the tools and of the Durable Objects, and the state of the
\* engine's inference components taken on their own.
serverVars == <<calls, stores, binding, failStatus, doLog>>
inferVars == <<edges, observed, colType>>

----------------------------------------------------------------------------
(* Bounds *)

MaxCalls == 3
MaxRequests == 3
MaxNestings == 3
MaxObservations == 3

\* Access ids are opaque strings that the program only compares; they are
\* named 1, 2, ... in the order in which they first appear, whether minted
\* by crypto.randomUUID() or supplied by a caller of the query tool.
Ids == 1..MaxCalls
NoId == 0

----------------------------------------------------------------------------
(* JSON values.  An object is a function from its keys to values; a key     *)
(* that is absent (or null) is not in the DOMAIN.                           *)

Has(obj, key) == key \in DOMAIN obj

\* The `data` payloads the upstream API returns: a document is the sequence
\* of entities found in it, each naming the table its shape belongs to.
Doc1 == << [table |-> "drugs", val |-> "Imatinib"] >>
Doc2 == << [table |-> "drugs", val |-> "Dovitinib"],
           [table |-> "genes", val |-> "BRAF"] >>
Docs == {Doc1, Doc2}

\* A document whose objects carry an `id` key of their own, the same value
\* in both.
Doc3 == << [table |-> "drugs", val |-> "Nilotinib", id |-> 7],
           [table |-> "drugs", val |-> "Bosutinib", id |-> 7] >>

\* The bodies a JSON response of the upstream API can carry.
EmptyObject == [k \in {} |-> 0]

JsonBodies ==
    {EmptyObject} \cup {[errors |-> "api"]}
           \cup {[data |-> Doc1]}
           \cup {[errors |-> "api", data |-> Doc2]}

\* The responses fetch(API_CONFIG.endpoint) can produce.  net = FALSE is a
\* rejected fetch (network failure); parses = FALSE is a body that
\* response.json() rejects: text that is not JSON, or no body at all, which
\* is what a response with a null body status has.
StatusCodes == {200, 500}
NullBodyStatuses == {204}
ResponseOk(status) == status >= 200 /\ status <= 299

\* Body text, as the sequence of its characters.
MalformedText == << "<", "h", "t", "m", "l", ">" >>
EmptyText == << >>

UpstreamResponses ==
    {[net |-> FALSE]}
    \cup {[net |-> TRUE, status |-> s, ctJson |-> FALSE] : s \in StatusCodes}
    \cup {[net |-> TRUE, status |-> s, ctJson |-> TRUE, parses |-> FALSE,
           hasBody |-> TRUE, text |-> MalformedText] : s \in StatusCodes}
    \cup {[net |-> TRUE, status |-> s, ctJson |-> TRUE, parses |-> FALSE,
           hasBody |-> FALSE, text |-> EmptyText] : s \in NullBodyStatuses}
    \cup {[net |-> TRUE, status |-> s, ctJson |-> TRUE, parses |-> TRUE, body |-> b]
             : s \in StatusCodes, b \in JsonBodies}

----------------------------------------------------------------------------
(* Outcomes of the async methods: a returned value or a thrown Error.       *)

Return(v) == [thrown |-> FALSE, value |-> v]
Throw(msg) == [thrown |-> TRUE, message |-> msg]

\* errorText.slice(0, 200)
BodyTruncation == 200
Slice(text, n) == SubSeq(text, 1, IF Len(text) < n THEN Len(text) ELSE n)

\* response.text(): the body can be read once; when response.json() has
\* read it, a second read is rejected.  A null body is never used up.
ResponseText(r, used) ==
    IF used /\ r.hasBody THEN Throw(<<"Body has already been used">>)
    ELSE Return(r.text)

\* The Error thrown when the body of a JSON response does not parse.
ParseFailure(status, errorText) ==
    <<"HTTP", status, "Failed to parse JSON response. Body (truncated): ",
      Slice(errorText, BodyTruncation)>>

\* executeGraphQLQuery, from the point its fetch settles with response r.
executeGraphQLQuery(r) ==
    IF ~r.net THEN Throw(<<"fetch failed">>)
    ELSE IF r.ctJson
         THEN IF ~r.parses
              THEN LET errorText == ResponseText(r, TRUE)
                   IN IF errorText.thrown THEN errorText
                      ELSE Throw(ParseFailure(r.status, errorText.value))
              ELSE IF ~ResponseOk(r.status)
                   THEN IF Has(r.body, "errors")
                        THEN Return(r.body)
                        ELSE Return([errors |-> "httpError"])
                   ELSE Return(r.body)
         ELSE Return([errors |-> "notJson"])

\* createErrorResponse(message, error): the JSON text of the returned content.
createErrorResponseBroken(message, error) ==
    [success |-> TRUE, error |-> message, details |-> error.message]

createErrorResponse(message, error) ==
    [success |-> FALSE, error |-> message, details |-> error.message]

----------------------------------------------------------------------------
(* JsonToSqlDO: one instance, with its own embedded store, per Durable      *)
(* Object id.  A store holds the tables materialized so far; every row has  *)
(* a synthetic integer primary key `id`.                                    *)

EmptyTables == [t \in {} |-> <<>>]
EmptyStore == [staged |-> FALSE, tables |-> EmptyTables]

\* A load that takes the key from the object when it has an `id`.
InsertRowJsonKey(tables, e) ==
    LET key(n) == IF Has(e, "id") THEN e.id ELSE n
    IN IF e.table \in DOMAIN tables
       THEN [tables EXCEPT ![e.table] = Append(@, [id |-> key(Len(@) + 1), val |-> e.val])]
       ELSE [t \in DOMAIN tables \cup {e.table} |->
               IF t = e.table THEN << [id |-> key(1), val |-> e.val] >> ELSE tables[t]]

\* One entity is loaded into the table of its shape, which is created when
\* it does not exist yet; the key is the table's next integer.
InsertRow(tables, e) ==
    IF e.table \in DOMAIN tables
    THEN [tables EXCEPT ![e.table] = Append(@, [id |-> Len(@) + 1, val |-> e.val])]
    ELSE [t \in DOMAIN tables \cup {e.table} |->
            IF t = e.table THEN << [id |-> 1, val |-> e.val] >> ELSE tables[t]]

RECURSIVE Materialize(_, _)
Materialize(tables, doc) ==
    IF doc = <<>> THEN tables
    ELSE Materialize(InsertRow(tables, Head(doc)), Tail(doc))

\* The engine accepts the whole response or its `data` field.
DOJsonRoot(body) ==
    IF Has(body, "data") THEN body.data
    ELSE IF DOMAIN body = {} THEN <<>>
    ELSE << [table |-> "root", val |-> body] >>

RECURSIVE SumRows(_, _)
SumRows(tables, names) ==
    IF names = {} THEN 0
    ELSE LET t == CHOOSE x \in names : TRUE
         IN Len(tables[t]) + SumRows(tables, names \ {t})

ProcessingResult(tables) ==
    [success |-> TRUE,
     table_count |-> Cardinality(DOMAIN tables),
     total_rows |-> SumRows(tables, DOMAIN tables)]

\* A request that fails leaves the store as it was; the reply is a non-OK
\* response or an OK response whose body reports the failure.
DOFailure(store, kind) ==
    {[store |-> store, ok |-> ~failStatus,
      body |-> [success |-> FALSE, message |-> kind]]}

\* A load that builds its tables anew instead of extending the store's.
DOProcessReplacing(store, body) ==
    LET tables == Materialize(EmptyTables, DOJsonRoot(body))
    IN {[store |-> [staged |-> TRUE, tables |-> tables],
         ok |-> TRUE,
         body |-> ProcessingResult(tables)]}
       \cup DOFailure(store, "StorageError")

\* POST /process: the staging load, appended to what the store holds.
DOProcess(store, body) ==
    LET tables == Materialize(store.tables, DOJsonRoot(body))
    IN {[store |-> [staged |-> TRUE, tables |-> tables],
         ok |-> TRUE,
         body |-> ProcessingResult(tables)]}
       \cup DOFailure(store, "StorageError")

----------------------------------------------------------------------------
(* JsonToSqlDO, Type Unifier: observe(current_type, value) -> updated_type. *)

Types == {"integer", "real", "boolean", "text", "json"}
ScalarTypes == {"integer", "real", "boolean", "text"}

\* The type of a column for which no value has been observed yet.
Unobserved == "unobserved"

\* Raw JSON values.  A number is the fraction num / den; an object or an
\* array observed here is a leaf, one with no children.
JsonNull == [kind |-> "null"]
JsonTrue == [kind |-> "boolean", bool |-> TRUE]
JsonFive == [kind |-> "number", num |-> 5, den |-> 1]
JsonFivePointTwo == [kind |-> "number", num |-> 26, den |-> 5]
JsonString == [kind |-> "string", str |-> "Imatinib"]
JsonLeafObject == [kind |-> "object"]
JsonLeafArray == [kind |-> "array"]

JsonValues ==
    {JsonNull, JsonTrue, JsonFive, JsonFivePointTwo, JsonString,
     JsonLeafObject, JsonLeafArray}

IsIntegral(v) == v.num % v.den = 0

\* The storage type a raw value maps to; null contributes no information.
TypeOfValue(v) ==
    IF v.kind = "null" THEN Unobserved
    ELSE IF v.kind = "boolean" THEN "boolean"
    ELSE IF v.kind = "number" THEN (IF IsIntegral(v) THEN "integer" ELSE "real")
    ELSE IF v.kind = "string" THEN "text"
    ELSE "json"

\* The widening order: integer widens to real, every scalar type widens to
\* text, every type widens to json.
Widens(a, b) ==
    \/ a = b
    \/ a = "integer" /\ b = "real"
    \/ a \in ScalarTypes /\ b = "text"
    \/ b = "json"

\* A merge that falls back to json for every mix the rules do not name.
mergeToJson(a, b) ==
    IF a = b THEN a
    ELSE IF {a, b} = {"integer", "real"} THEN "real"
    ELSE IF "text" \in {a, b} /\ "json" \notin {a, b} THEN "text"
    ELSE "json"

\* The merge of two types: the least type both widen to.  boolean mixed
\* with a number has no rule of its own; both widen to text.
merge(a, b) ==
    CHOOSE u \in Types :
        /\ Widens(a, u) /\ Widens(b, u)
        /\ \A w \in Types : (Widens(a, w) /\ Widens(b, w)) => Widens(u, w)

observe(current, value) ==
    LET t == TypeOfValue(value)
    IN IF t = Unobserved THEN current
       ELSE IF current = Unobserved THEN t
       ELSE merge(current, t)

\* One more value is observed for the column.
Observe(v) ==
    /\ Len(observed) < MaxObservations
    /\ observed' = Append(observed, v)
    /\ colType' = observe(colType, v)
    /\ UNCHANGED <<serverVars, edges>>

----------------------------------------------------------------------------
(* JsonToSqlDO, Relationship Detector:                                      *)
(* classify(parent_table, field_name, child_values) -> Relationship.        *)

\* A nesting is one key of a parent table's objects whose value is an
\* object or an array of objects: the child's shape names the child table;
\* recurs says that the same child row content was seen under different
\* parent rows of the batch.
ParentTables == {"drugs", "interactions"}

Nesting(parent, field, isArray, shape, recurs) ==
    [parent |-> parent, field |-> field, isArray |-> isArray,
     shape |-> shape, recurs |-> recurs]

Nestings ==
    {Nesting(p, "gene", FALSE, "genes", FALSE) : p \in ParentTables}
    \cup {Nesting(p, "genes", TRUE, "genes", r) : p \in ParentTables, r \in BOOLEAN}
    \cup {Nesting(p, "sources", TRUE, "sources", r) : p \in ParentTables, r \in BOOLEAN}

\* The parent tables from which a child shape is reachable in the batch.
ParentsOf(batch, shape) == {m.parent : m \in {x \in batch : x.shape = shape}}

ForeignKeyInParent(n) ==
    [type |-> "foreign_key", table |-> n.parent, target_table |-> n.shape,
     foreign_key_column |-> <<n.field, "_id">>]

ForeignKeyInChild(n) ==
    [type |-> "foreign_key", table |-> n.shape, target_table |-> n.parent,
     foreign_key_column |-> <<n.parent, "_id">>]

JunctionTable(n) ==
    [type |-> "junction_table", table |-> n.parent, target_table |-> n.shape,
     junction_table_name |-> <<n.parent, n.shape>>]

\* A detector that looks at the child shape's parents before anything else.
classifyByShape(batch, n) ==
    IF Cardinality(ParentsOf(batch, n.shape)) > 1 \/ n.recurs
    THEN JunctionTable(n)
    ELSE IF ~n.isArray THEN ForeignKeyInParent(n)
    ELSE ForeignKeyInChild(n)

\* The decision policy, in its order: a single nested object; an array of
\* objects that is many-to-many; an array of objects that is one-to-many.
classify(batch, n) ==
    IF ~n.isArray THEN ForeignKeyInParent(n)
    ELSE IF Cardinality(ParentsOf(batch, n.shape)) > 1 \/ n.recurs
    THEN JunctionTable(n)
    ELSE ForeignKeyInChild(n)

\* The inference walk finds one more nesting in the staged JSON.
Discover(n) ==
    /\ Cardinality(edges) < MaxNestings
    /\ n \notin edges
    /\ edges' = edges \cup {n}
    /\ UNCHANGED <<serverVars, observed, colType>>

----------------------------------------------------------------------------
(* SQL.  A call's sql string is the sequence of its statements; a statement *)
(* has its leading keyword and the table it names.                          *)

Stmt(verb, table) == [verb |-> verb, table |-> table]

SelectGenes == << Stmt("SELECT", "genes") >>
DropDrugs == << Stmt("DROP", "drugs") >>
WithThenDrop == << Stmt("WITH", "drugs"), Stmt("DROP", "drugs") >>

SqlInputs == {SelectGenes, DropDrugs, WithThenDrop}
NoSql == <<>>

ReadOnlyVerbs == {"SELECT", "WITH"}

\* A single SELECT / WITH...SELECT statement.
IsReadOnly(sql) == Len(sql) = 1 /\ sql[1].verb \in ReadOnlyVerbs

\* What the embedded engine does with one statement it is given; a table
\* that does not exist is an error.
ExecStatement(tables, stmt) ==
    IF stmt.table \notin DOMAIN tables
    THEN [tables |-> tables, failed |-> TRUE, rows |-> <<>>]
    ELSE IF stmt.verb \in ReadOnlyVerbs
    THEN [tables |-> tables, failed |-> FALSE, rows |-> tables[stmt.table]]
    ELSE IF stmt.verb = "DROP"
    THEN [tables |-> [t \in DOMAIN tables \ {stmt.table} |-> tables[t]],
          failed |-> FALSE, rows |-> <<>>]
    ELSE [tables |-> InsertRow(tables, [table |-> stmt.table, val |-> "inserted"]),
          failed |-> FALSE, rows |-> <<>>]

RECURSIVE ExecSql(_, _, _)
ExecSql(tables, sql, rows) ==
    IF sql = <<>> THEN [tables |-> tables, failed |-> FALSE, rows |-> rows]
    ELSE LET r == ExecStatement(tables, Head(sql))
         IN IF r.failed THEN r ELSE ExecSql(r.tables, Tail(sql), r.rows)

QueryResult(rows) == [success |-> TRUE, rows |-> rows]

\* The executor with its read-only check left out.
DOQueryUnchecked(store, sql) ==
    IF ~store.staged THEN DOFailure(store, "UnknownSessionError")
    ELSE LET r == ExecSql(store.tables, sql, <<>>)
         IN IF r.failed
            THEN DOFailure(store, "SqlExecutionError")
            ELSE {[store |-> [store EXCEPT !.tables = r.tables],
                   ok |-> TRUE,
                   body |-> QueryResult(r.rows)]}

\* POST /query: session lookup, the read-only policy, then the engine.
DOQuery(store, sql) ==
    IF ~store.staged THEN DOFailure(store, "UnknownSessionError")
    ELSE IF ~IsReadOnly(sql) THEN DOFailure(store, "DisallowedStatementError")
    ELSE LET r == ExecSql(store.tables, sql, <<>>)
         IN IF r.failed
            THEN DOFailure(store, "SqlExecutionError")
            ELSE {[store |-> [store EXCEPT !.tables = r.tables],
                   ok |-> TRUE,
                   body |-> QueryResult(r.rows)]}

\* JsonToSqlDO.fetch: the instance's request router.
DOFetch(store, path, body) ==
    IF path = "/process" THEN DOProcess(store, body)
    ELSE IF path = "/query" /\ Has(body, "sql") THEN DOQuery(store, body.sql)
    ELSE {[store |-> store, ok |-> FALSE,
           body |-> [success |-> FALSE, message |-> "Not found"]]}

----------------------------------------------------------------------------
(* The Durable Object namespace env.JSON_TO_SQL_DO.                         *)

\* Every name is sent to the same instance.
idFromNameShared(name) == <<"JSON_TO_SQL_DO", NoId>>

\* idFromName(name): the id derived from a name; equal names give equal
\* ids and different names different ids.
idFromName(name) == <<"JSON_TO_SQL_DO", name>>

\* A runtime whose new instances start from the store of an existing one.
DOInstanceInherited(doId) ==
    IF doId \in DOMAIN stores THEN stores[doId]
    ELSE IF DOMAIN stores # {} THEN stores[CHOOSE d \in DOMAIN stores : TRUE]
    ELSE EmptyStore

\* get(doId) followed by stub.fetch reaches the instance with that id,
\* which the runtime creates, with an empty store, when it does not exist.
DOInstance(doId) == IF doId \in DOMAIN stores THEN stores[doId] ELSE EmptyStore

WithStore(doId, store) ==
    [d \in DOMAIN stores \cup {doId} |-> IF d = doId THEN store ELSE stores[d]]

\* stub.fetch("http://do/process", ...) in stageDataInDurableObject.
StageEndpoint == "/process"

\* stub.fetch("http://do/query", ...) in executeSQLQuery.
SqlEndpointProcess == "/process"

SqlEndpoint == "/query"

\* The access ids that have appeared so far, and the id that appears next.
UsedIds == {calls[i].accessId : i \in 1..Len(calls)} \ {NoId}
FreshIds == {i \in Ids : i = Cardinality(UsedIds) + 1}

\* A generator that can return a value it has returned before.
randomUUIDRepeating == Ids

\* crypto.randomUUID(): a value that has not appeared before.
randomUUID == FreshIds

\* The ids a caller of the query tool can supply: one that has appeared, or
\* one that has not.
QueryIds == UsedIds \cup FreshIds

----------------------------------------------------------------------------
(* The tools of DGIdbMCP.                                                   *)

BindingMissing ==
    Throw(<<"JSON_TO_SQL_DO binding not available in environment">>)

\* stageDataInDurableObject from the reply o of the instance on: a reply
\* that is not OK is thrown, any other is returned under the access id.
stageDataInDurableObjectNoId(accessId, o) ==
    IF ~o.ok
    THEN Throw(<<"Durable Object data staging failed", o.body>>)
    ELSE Return([data_access_id |-> NoId, processing_details |-> o.body])

stageDataInDurableObject(accessId, o) ==
    IF ~o.ok
    THEN Throw(<<"Durable Object data staging failed", o.body>>)
    ELSE Return([data_access_id |-> accessId, processing_details |-> o.body])

\* executeSQLQuery from the reply o of the instance on.
executeSQLQuery(o) ==
    IF ~o.ok
    THEN Throw(<<"Durable Object SQL execution failed", o.body>>)
    ELSE Return(o.body)

\* A handler without the catch block: what is thrown reaches the caller.
GraphqlToolResultUncaught(outcome) ==
    IF outcome.thrown THEN outcome ELSE outcome.value

\* The try/catch of the dgidb_graphql_query handler.
GraphqlToolResult(outcome) ==
    IF outcome.thrown
    THEN createErrorResponse("GraphQL execution or data staging failed", outcome)
    ELSE outcome.value

\* The try/catch of the dgidb_query_sql handler.
SqlToolResult(outcome) ==
    IF outcome.thrown
    THEN createErrorResponse("SQL execution failed", outcome)
    ELSE outcome.value

NewCall(kind) ==
    [kind |-> kind, pc |-> "start", accessId |-> NoId, sql |-> NoSql,
     request |-> EmptyObject, upReqs |-> 0, doReqs |-> 0, resp |-> EmptyObject]

Finished(call, resp) == [call EXCEPT !.pc = "done", !.resp = resp]

\* A handler that returns every result with errors as it is, data or not.
StageAfterUpstreamSkipOnErrors(call, g, a) ==
    IF g.thrown THEN Finished(call, GraphqlToolResult(g))
    ELSE IF Has(g.value, "errors")
    THEN Finished(call, g.value)
    ELSE IF ~binding THEN Finished(call, GraphqlToolResult(BindingMissing))
    ELSE [call EXCEPT !.pc = "awaitDO", !.accessId = a,
                      !.request = g.value, !.doReqs = @ + 1]

\* The handler of the stage tool from the upstream result g on: errors and
\* no data are returned as they are; anything else is staged, which needs
\* the binding, mints the access id a and sends the result to the instance.
StageAfterUpstream(call, g, a) ==
    IF g.thrown THEN Finished(call, GraphqlToolResult(g))
    ELSE IF Has(g.value, "errors") /\ ~Has(g.value, "data")
    THEN Finished(call, g.value)
    ELSE IF ~binding THEN Finished(call, GraphqlToolResult(BindingMissing))
    ELSE [call EXCEPT !.pc = "awaitDO", !.accessId = a,
                      !.request = g.value, !.doReqs = @ + 1]

\* The stage tool is invoked: executeGraphQLQuery issues its one fetch,
\* which settles with response r, and the handler runs on to its return or
\* to the stub.fetch it awaits next.  Until then the handler reads and
\* writes nothing that another invocation shares.
StageInvoke(r) ==
    /\ Len(calls) < MaxCalls
    /\ \E a \in randomUUID :
          calls' = Append(calls,
                      StageAfterUpstream([NewCall("stage") EXCEPT !.upReqs = 1],
                                         executeGraphQLQuery(r), a))
    /\ UNCHANGED <<stores, binding, failStatus, doLog, inferVars>>

\* The stage handler once the instance has replied o; a failing reply sends
\* the request again instead of giving up.
StageAfterReplyRetrying(call, o) ==
    IF ~o.ok THEN [call EXCEPT !.doReqs = @ + 1]
    ELSE Finished(call, GraphqlToolResult(stageDataInDurableObject(call.accessId, o)))

\* The stage handler once the instance has replied o.
StageAfterReply(call, o) ==
    Finished(call, GraphqlToolResult(stageDataInDurableObject(call.accessId, o)))

\* The instance named by stage call c's access id handles POST /process and
\* the handler resumes with its reply.
StageProcess(c) ==
    /\ calls[c].kind = "stage" /\ calls[c].pc = "awaitDO"
    /\ LET doId == idFromName(calls[c].accessId)
       IN \E o \in DOFetch(DOInstance(doId), StageEndpoint, calls[c].request) :
             /\ stores' = WithStore(doId, o.store)
             /\ calls' = [calls EXCEPT ![c] = StageAfterReply(@, o)]
    /\ UNCHANGED <<binding, failStatus, doLog, inferVars>>

\* The query tool is invoked with an access id and an sql string:
\* executeSQLQuery needs the binding and sends the sql to the instance.
QueryInvoke(id, sql) ==
    /\ Len(calls) < MaxCalls
    /\ LET call == [NewCall("query") EXCEPT !.accessId = id, !.sql = sql]
       IN calls' = Append(calls,
             IF ~binding THEN Finished(call, SqlToolResult(BindingMissing))
             ELSE [call EXCEPT !.pc = "awaitDO", !.request = [sql |-> sql],
                               !.doReqs = @ + 1])
    /\ UNCHANGED <<stores, binding, failStatus, doLog, inferVars>>

\* The query handler once the instance has replied o.
QueryAfterReply(call, o) == Finished(call, SqlToolResult(executeSQLQuery(o)))

\* The instance named by query call c's access id handles POST /query and
\* the handler resumes with its reply.
QueryExecute(c) ==
    /\ calls[c].kind = "query" /\ calls[c].pc = "awaitDO"
    /\ LET doId == idFromName(calls[c].accessId)
       IN \E o \in DOFetch(DOInstance(doId), SqlEndpoint, calls[c].request) :
             /\ stores' = WithStore(doId, o.store)
             /\ calls' = [calls EXCEPT ![c] = QueryAfterReply(@, o)]
    /\ UNCHANGED <<binding, failStatus, doLog, inferVars>>

----------------------------------------------------------------------------

Init ==
    /\ calls = <<>>
    /\ stores = [d \in {} |-> EmptyStore]
    /\ binding \in BOOLEAN
    /\ failStatus \in BOOLEAN
    /\ doLog = <<>>
    /\ edges = {}
    /\ observed = <<>>
    /\ colType = Unobserved

Next ==
    \/ \E r \in UpstreamResponses : StageInvoke(r)
    \/ \E c \in 1..Len(calls) : StageProcess(c)
    \/ \E id \in QueryIds, sql \in SqlInputs : QueryInvoke(id, sql)
    \/ \E c \in 1..Len(calls) : QueryExecute(c)

Spec == Init /\ [][Next]_vars

----------------------------------------------------------------------------
(* One JsonToSqlDO instance on its own, handling the requests that reach    *)
(* its fetch handler in whatever order they arrive: the session of one      *)
(* access id, staged into and queried repeatedly.                           *)

TheInstance == idFromName(1)

\* The bodies stageDataInDurableObject posts: upstream results that are
\* not errors without data.
StageBodies == {b \in JsonBodies : Has(b, "data") \/ ~Has(b, "errors")}

\* The bodies posted to the one instance: those, and a result whose
\* objects have ids of their own.
DOBodies == StageBodies \cup {[data |-> Doc3]}

Logged(path, body, o) == [path |-> path, body |-> body, ok |-> o.ok, reply |-> o.body]

DOProcessRequest(body) ==
    /\ Len(doLog) < MaxRequests
    /\ \E o \in DOFetch(DOInstance(TheInstance), "/process", body) :
          /\ stores' = WithStore(TheInstance, o.store)
          /\ doLog' = Append(doLog, Logged("/process", body, o))
    /\ UNCHANGED <<calls, binding, failStatus, inferVars>>

DOQueryRequest(sql) ==
    /\ Len(doLog) < MaxRequests
    /\ \E o \in DOFetch(DOInstance(TheInstance), "/query", [sql |-> sql]) :
          /\ stores' = WithStore(TheInstance, o.store)
          /\ doLog' = Append(doLog, Logged("/query", [sql |-> sql], o))
    /\ UNCHANGED <<calls, binding, failStatus, inferVars>>

InitDO ==
    /\ calls = <<>>
    /\ stores = [d \in {} |-> EmptyStore]
    /\ binding = TRUE
    /\ failStatus \in BOOLEAN
    /\ doLog = <<>>
    /\ edges = {}
    /\ observed = <<>>
    /\ colType = Unobserved

NextDO ==
    \/ \E body \in DOBodies : DOProcessRequest(body)
    \/ \E sql \in SqlInputs : DOQueryRequest(sql)

SpecDO == InitDO /\ [][NextDO]_vars

----------------------------------------------------------------------------
(* The inference components of JsonToSqlDO on their own: the Relationship   *)
(* Detector over the nestings of one staging batch, and the Type Unifier    *)
(* over the values of one column.                                           *)

InitInfer ==
    /\ calls = <<>>
    /\ stores = [d \in {} |-> EmptyStore]
    /\ binding = TRUE
    /\ failStatus = FALSE
    /\ doLog = <<>>
    /\ edges = {}
    /\ observed = <<>>
    /\ colType = Unobserved

NextClassify == \E n \in Nestings : Discover(n)

SpecClassify == InitInfer /\ [][NextClassify]_vars

NextUnify == \E v \in JsonValues : Observe(v)

SpecUnify == InitInfer /\ [][NextUnify]_vars

----------------------------------------------------------------------------
(* Vocabulary of the properties.                                            *)

CallIds == 1..Len(calls)
IsStage(c) == calls[c].kind = "stage"
IsQuery(c) == calls[c].kind = "query"
Done(c) == calls[c].pc = "done"
InFlight(c) == calls[c].pc = "awaitDO"

\* The reason a failure response names: the message of the instance's body,
\* returned as it is or wrapped in the details of createErrorResponse.
FailureReason(resp) ==
    IF Has(resp, "message") THEN resp.message
    ELSE IF Has(resp, "details") /\ Len(resp.details) = 2
         THEN resp.details[2].message
         ELSE "none"

HasMessage(resp) ==
    Has(resp, "message") \/ (Has(resp, "error") /\ Has(resp, "details"))

\* Stage call c has returned an access id.
ReturnedId(c) == IsStage(c) /\ Done(c) /\ Has(calls[c].resp, "data_access_id")

\* Stage call c has returned and its data was loaded.
Loaded(c) == ReturnedId(c) /\ calls[c].resp.processing_details.success

\* The stage calls whose data was loaded under access id a.
LoadedUnder(a) == {c \in CallIds : Loaded(c) /\ calls[c].accessId = a}

\* Access id a was minted by a stage call.
Minted(a) == \E c \in CallIds : IsStage(c) /\ calls[c].accessId = a

\* The table that staging the request of call c alone gives.
TablesOf(c) == Materialize(EmptyTables, DOJsonRoot(calls[c].request))

\* Row r of table t comes from the data of call c.
RowFrom(t, r, c) ==
    LET doc == DOJsonRoot(calls[c].request)
    IN \E i \in DOMAIN doc : doc[i] = [table |-> t, val |-> r.val]

\* Call c returns in this step.
Returns(c) ==
    /\ c \in 1..Len(calls')
    /\ calls'[c].pc = "done"
    /\ (c \in CallIds => ~Done(c))

----------------------------------------------------------------------------
(* C1: a query whose access id no stage call produced fails with an         *)
(* unknown-session error and no store is created for that id.  Stated for   *)
(* a deployment in which the namespace is bound.                            *)
C1_UnknownSessionNoStore ==
    binding =>
        \A c \in CallIds :
            (IsQuery(c) /\ ~Minted(calls[c].accessId)) =>
                /\ idFromName(calls[c].accessId) \notin DOMAIN stores
                /\ Done(c) => /\ calls[c].resp.success = FALSE
                              /\ FailureReason(calls[c].resp) = "UnknownSessionError"

----------------------------------------------------------------------------
\* The number of entities of document doc that belong to table t.
RECURSIVE CountIn(_, _)
CountIn(doc, t) ==
    IF doc = <<>> THEN 0
    ELSE (IF Head(doc).table = t THEN 1 ELSE 0) + CountIn(Tail(doc), t)

RECURSIVE CountUnder(_, _)
CountUnder(cs, t) ==
    IF cs = {} THEN 0
    ELSE LET c == CHOOSE x \in cs : TRUE
         IN CountIn(DOJsonRoot(calls[c].request), t) + CountUnder(cs \ {c}, t)

\* The store that access id a is routed to holds the rows loaded under a,
\* all of them and nothing else.
OnlyOwnRows(a) ==
    LET tables == DOInstance(idFromName(a)).tables
        loaded == LoadedUnder(a)
    IN \A t \in DOMAIN tables :
          /\ Len(tables[t]) = CountUnder(loaded, t)
          /\ \A i \in DOMAIN tables[t] :
                \E c \in loaded : RowFrom(t, tables[t][i], c)

\* The rows a finished query returned were staged under the id it gave.
QueryRowsOwn(q) ==
    (IsQuery(q) /\ Done(q) /\ Has(calls[q].resp, "rows")) =>
        \A i \in DOMAIN calls[q].resp.rows :
            \E c \in CallIds :
                /\ IsStage(c) /\ calls[c].accessId = calls[q].accessId
                /\ RowFrom(calls[q].sql[1].table, calls[q].resp.rows[i], c)

\* A step taken for call c leaves the store of every other access id as it is.
OthersUntouched(c) ==
    \A b \in UsedIds :
        b # calls[c].accessId =>
            DOInstance(idFromName(b)) =
                (IF idFromName(b) \in DOMAIN stores'
                 THEN stores'[idFromName(b)] ELSE EmptyStore)

\* In every state: stores hold their own rows, queries returned their own.
C2_IsolationState ==
    /\ \A a \in UsedIds : OnlyOwnRows(a)
    /\ \A q \in CallIds : QueryRowsOwn(q)

\* In every step: the call that returns touched no other id's store.
C2_IsolationStep ==
    \A c \in CallIds : (InFlight(c) /\ Returns(c)) => OthersUntouched(c)

(* C2: session isolation.  In every state the store an access id is routed  *)
(* to holds exactly the rows staged under that id, and the rows a query     *)
(* returned were staged under the id it was issued with; and every step of  *)
(* a stage or query call leaves the stores of all other ids unchanged.      *)
C2_SessionIsolation == []C2_IsolationState /\ [][C2_IsolationStep]_vars

\* Two sessions with different data exist and a query of one of them has
\* returned rows.
C2_Witness ==
    \E c1, c2, q \in CallIds :
        /\ Loaded(c1) /\ Loaded(c2)
        /\ calls[c1].accessId # calls[c2].accessId
        /\ calls[c1].request # calls[c2].request
        /\ IsQuery(q) /\ Done(q) /\ calls[q].accessId = calls[c1].accessId
        /\ Has(calls[q].resp, "rows") /\ calls[q].resp.rows # <<>>

----------------------------------------------------------------------------
\* Query call c is answered in this step by the instance of a session that
\* exists (its store has been staged).
AnswersExisting(c) ==
    /\ c \in CallIds /\ IsQuery(c) /\ InFlight(c) /\ Returns(c)
    /\ DOInstance(idFromName(calls[c].accessId)).staged

\* The step that answers a statement that is not read-only.
C3_DisallowedStep ==
    \A c \in CallIds :
        (AnswersExisting(c) /\ ~IsReadOnly(calls[c].sql)) =>
            /\ calls'[c].resp.success = FALSE
            /\ FailureReason(calls'[c].resp) = "DisallowedStatementError"
            /\ stores' = stores

(* C3: a query of an existing session with a statement that is not a single *)
(* SELECT / WITH...SELECT (a DROP, or two statements in one call) returns a *)
(* failure naming the disallowed statement, and the step leaves every store *)
(* as it was.                                                               *)
C3_DisallowedRejected == [][C3_DisallowedStep]_vars

\* A DROP and a two-statement call were both refused by a session that
\* still holds its table.
C3_Witness ==
    \E q1, q2 \in CallIds :
        /\ IsQuery(q1) /\ Done(q1) /\ calls[q1].sql = DropDrugs
        /\ IsQuery(q2) /\ Done(q2) /\ calls[q2].sql = WithThenDrop
        /\ calls[q1].accessId = calls[q2].accessId
        /\ FailureReason(calls[q1].resp) = "DisallowedStatementError"
        /\ FailureReason(calls[q2].resp) = "DisallowedStatementError"
        /\ "drugs" \in DOMAIN DOInstance(idFromName(calls[q1].accessId)).tables

----------------------------------------------------------------------------
\* The response of finished stage call c reports a failure: an error
\* response, upstream errors handed back, or processing details that say so.
StageFailed(c) ==
    \/ Has(calls[c].resp, "success") /\ calls[c].resp.success = FALSE
    \/ Has(calls[c].resp, "errors") /\ ~Has(calls[c].resp, "processing_details")
    \/ Has(calls[c].resp, "processing_details")
         /\ calls[c].resp.processing_details.success = FALSE

(* C4: the response of a failed stage call carries no data_access_id.       *)
C4_FailedStageNoAccessId ==
    \A c \in CallIds :
        (IsStage(c) /\ Done(c) /\ StageFailed(c)) =>
            ~Has(calls[c].resp, "data_access_id")

----------------------------------------------------------------------------
\* The query call that returns in this step has to fail: the binding is
\* missing, the session does not exist, the statement is disallowed or the
\* engine rejects it.
QueryMustFail(c) ==
    IF c \notin CallIds THEN ~binding
    ELSE LET store == DOInstance(idFromName(calls[c].accessId))
         IN \/ ~store.staged
            \/ ~IsReadOnly(calls[c].sql)
            \/ calls[c].sql[1].table \notin DOMAIN store.tables

\* The step in which a query that has to fail returns.
C5_FailedQueryStep ==
    \A c \in 1..Len(calls') :
        (calls'[c].kind = "query" /\ Returns(c) /\ QueryMustFail(c)) =>
            /\ Has(calls'[c].resp, "success")
            /\ calls'[c].resp.success = FALSE
            /\ HasMessage(calls'[c].resp)
            /\ ~Has(calls'[c].resp, "rows")

(* C5: a query call that fails (missing binding, unknown session,           *)
(* disallowed statement, table that does not exist) returns success = false *)
(* with a message and no rows.                                              *)
C5_FailedQueryNoRows == [][C5_FailedQueryStep]_vars

\* Two failed queries have returned, one of an unknown session and one of
\* an existing session whose table does not exist.
C5_Witness ==
    \E q1, q2 \in CallIds :
        /\ IsQuery(q1) /\ Done(q1) /\ IsQuery(q2) /\ Done(q2)
        /\ FailureReason(calls[q1].resp) = "UnknownSessionError"
        /\ FailureReason(calls[q2].resp) = "SqlExecutionError"
        /\ LoadedUnder(calls[q2].accessId) # {}
        /\ \A q \in {q1, q2} :
               calls[q].resp.success = FALSE /\ ~Has(calls[q].resp, "rows")

----------------------------------------------------------------------------
\* The rows that staging the request of call c alone puts in table t.
StagedRows(c, t) ==
    LET staged == TablesOf(c) IN IF t \in DOMAIN staged THEN staged[t] ELSE <<>>

\* The store named by the id that stage call c returned holds the data of c.
ReturnedIdNamesStore(c) ==
    LET doId == idFromName(calls[c].resp.data_access_id)
        staged == TablesOf(c)
    IN /\ doId \in DOMAIN stores
       /\ stores[doId].staged
       /\ \A t \in DOMAIN staged :
             /\ t \in DOMAIN stores[doId].tables
             /\ \A i \in DOMAIN staged[t] :
                   \E j \in DOMAIN stores[doId].tables[t] :
                       stores[doId].tables[t][j].val = staged[t][i].val

\* A read-only query issued with the id that stage call c returned, and
\* answered after c returned, sees the tables of c.
SeesStaged(q, c) ==
    (/\ q \in CallIds /\ IsQuery(q) /\ InFlight(q) /\ Returns(q)
     /\ Loaded(c) /\ calls[q].accessId = calls[c].resp.data_access_id
     /\ IsReadOnly(calls[q].sql)
     /\ calls[q].sql[1].table \in DOMAIN TablesOf(c)) =>
        /\ Has(calls'[q].resp, "rows")
        /\ calls'[q].resp.rows = StagedRows(c, calls[q].sql[1].table)

\* In every state: returned ids name the stores that hold the data, and
\* no id is returned twice.
C6_LinkageState ==
    /\ \A c \in CallIds : Loaded(c) => ReturnedIdNamesStore(c)
    /\ \A c1, c2 \in CallIds :
          (ReturnedId(c1) /\ ReturnedId(c2) /\ c1 # c2) =>
              calls[c1].resp.data_access_id # calls[c2].resp.data_access_id

\* In every step: a query issued with a returned id sees the staged rows.
C6_LinkageStep ==
    \A q \in CallIds :
        (IsQuery(q) /\ InFlight(q) /\ Returns(q)) =>
            \A c \in CallIds : SeesStaged(q, c)

(* C6: the access id a successful stage call returns names the store that   *)
(* holds that call's data, no two stage calls return the same id, and a     *)
(* later query issued with the id is answered from that store with the      *)
(* staged rows.                                                             *)
C6_StageQueryLinkage == []C6_LinkageState /\ [][C6_LinkageStep]_vars

\* A stage call returned an id and a query issued with it returned the
\* rows of the staged table.
C6_Witness ==
    \E c, q \in CallIds :
        /\ Loaded(c) /\ IsQuery(q) /\ Done(q)
        /\ calls[q].accessId = calls[c].resp.data_access_id
        /\ Has(calls[q].resp, "rows")
        /\ calls[q].resp.rows # <<>>
        /\ calls[q].resp.rows = StagedRows(c, calls[q].sql[1].table)

----------------------------------------------------------------------------
\* Sequence s is the beginning of sequence u.
IsPrefix(s, u) == Len(s) <= Len(u) /\ \A i \in DOMAIN s : u[i] = s[i]

\* The rows a table has gained in this step come from document doc.
GainedFrom(old, new, t, doc) ==
    \A i \in DOMAIN new[t] :
        (t \in DOMAIN old => i > Len(old[t])) =>
            \E j \in DOMAIN doc : doc[j].table = t /\ doc[j].val = new[t][i].val

\* One request handled by an instance: tables kept, rows kept, rows gained
\* only from the JSON staged.
C7_AppendStep ==
    \A d \in DOMAIN stores :
        /\ d \in DOMAIN stores'
        /\ \A t \in DOMAIN stores[d].tables :
              /\ t \in DOMAIN stores'[d].tables
              /\ IsPrefix(stores[d].tables[t], stores'[d].tables[t])
        /\ \A t \in DOMAIN stores'[d].tables :
              /\ Len(doLog') > Len(doLog)
              /\ GainedFrom(stores[d].tables, stores'[d].tables, t,
                            IF doLog'[Len(doLog')].path = "/process"
                            THEN DOJsonRoot(doLog'[Len(doLog')].body) ELSE <<>>)

(* C7: loading is append-only.  Whatever request an instance handles, each  *)
(* table it held is still there with its earlier rows unchanged at the      *)
(* front, so no row count decreases; and every row gained comes from the    *)
(* JSON of the staging request just handled.                                *)
C7_LoadingAppendOnly == [][C7_AppendStep]_vars

\* One session was staged twice with different JSON: the table both loads
\* share holds the first load's row and then the second's, and the second
\* load's new table exists.
C7_Witness ==
    /\ Len(doLog) >= 2
    /\ doLog[1].path = "/process" /\ doLog[1].body = [data |-> Doc1]
    /\ doLog[2].path = "/process" /\ doLog[2].body # [data |-> Doc1]
    /\ TheInstance \in DOMAIN stores
    /\ "genes" \in DOMAIN stores[TheInstance].tables
    /\ Len(stores[TheInstance].tables["drugs"]) = 2
    /\ stores[TheInstance].tables["drugs"][1] = [id |-> 1, val |-> "Imatinib"]
    /\ stores[TheInstance].tables["drugs"][2] = [id |-> 2, val |-> "Dovitinib"]

----------------------------------------------------------------------------
(* C8: no two stage calls target the same access id, so at most one         *)
(* staging call per id is in flight, and the store of an id holds what      *)
(* loading the calls staged under it, one after the other, gives.           *)
C8_StagingSerialized ==
    /\ \A c1, c2 \in CallIds :
          (IsStage(c1) /\ IsStage(c2) /\ c1 # c2 /\ calls[c1].accessId # NoId) =>
              calls[c1].accessId # calls[c2].accessId
    /\ \A a \in UsedIds :
          /\ Cardinality(LoadedUnder(a)) <= 1
          /\ DOInstance(idFromName(a)).tables =
                (IF LoadedUnder(a) = {} THEN EmptyTables
                 ELSE TablesOf(CHOOSE c \in LoadedUnder(a) : TRUE))

\* Two stage calls are in flight at once, each under its own id, next to
\* a store that already holds a finished call's load.
C8_Witness ==
    \E c1, c2, c3 \in CallIds :
        /\ IsStage(c1) /\ InFlight(c1)
        /\ IsStage(c2) /\ InFlight(c2) /\ c1 # c2
        /\ Loaded(c3) /\ DOInstance(idFromName(calls[c3].accessId)).tables # EmptyTables

----------------------------------------------------------------------------
\* What the query tool returns for sql when the instance holds store.
AloneResult(store, sql) ==
    SqlToolResult(executeSQLQuery(CHOOSE o \in DOQuery(store, sql) : TRUE))

\* A step of a query call: its invocation or its answer.
C9_QueryStep ==
    \A c \in 1..Len(calls') :
        (calls'[c].kind = "query"
         /\ (c \notin CallIds \/ (InFlight(c) /\ Returns(c)))) =>
            /\ \A d \in DOMAIN stores :
                  d \in DOMAIN stores' /\ stores'[d] = stores[d]
            /\ (c \in CallIds /\ idFromName(calls[c].accessId) \in DOMAIN stores) =>
                  stores' = stores
            /\ c \in CallIds =>
                  calls'[c].resp =
                      AloneResult(DOInstance(idFromName(calls[c].accessId)),
                                  calls[c].sql)

(* C9: a step of a query call changes the store of no instance that         *)
(* exists, changes nothing at all when the queried session exists, and      *)
(* returns what the query returns on that store alone, whatever other       *)
(* queries are in flight.                                                   *)
C9_QueriesSideEffectFree == [][C9_QueryStep]_vars

\* Two queries of one staged session overlap: one has returned rows while
\* the other is still in flight, and the store holds its rows.
C9_Witness ==
    \E c, q1, q2 \in CallIds :
        /\ Loaded(c) /\ IsQuery(q1) /\ IsQuery(q2) /\ q1 < q2
        /\ calls[q1].accessId = calls[c].accessId
        /\ calls[q2].accessId = calls[c].accessId
        /\ InFlight(q1) /\ Done(q2)
        /\ Has(calls[q2].resp, "rows") /\ calls[q2].resp.rows # <<>>
        /\ DOInstance(idFromName(calls[c].accessId)).tables = TablesOf(c)

----------------------------------------------------------------------------
(* C10: no invocation repeats a request.  A stage call sends at most one    *)
(* request upstream and at most one to the instance; a query call sends     *)
(* none upstream and at most one to the instance.                           *)
C10_NoRetry ==
    \A c \in CallIds :
        /\ calls[c].upReqs <= 1
        /\ calls[c].doReqs <= 1
        /\ IsQuery(c) => calls[c].upReqs = 0
        /\ (IsStage(c) /\ calls[c].doReqs = 1) => calls[c].upReqs = 1

\* A stage call whose upstream request failed, a stage call whose request
\* to the instance failed and a failed query have all returned, each having
\* sent its request once.
C10_Witness ==
    \E c1, c2, q \in CallIds :
        /\ IsStage(c1) /\ Done(c1) /\ calls[c1].upReqs = 1 /\ calls[c1].doReqs = 0
        /\ FailureReason(calls[c1].resp) = "none"
        /\ Has(calls[c1].resp, "success")
        /\ IsStage(c2) /\ Done(c2) /\ calls[c2].upReqs = 1 /\ calls[c2].doReqs = 1
        /\ FailureReason(calls[c2].resp) = "StorageError"
        /\ IsQuery(q) /\ Done(q) /\ calls[q].doReqs = 1
        /\ calls[q].resp.success = FALSE

----------------------------------------------------------------------------
\* The number of distinct parent tables the child shape of nesting n is
\* reachable from in the batch.
ParentCount(n) == Cardinality(ParentsOf(edges, n.shape))

HeldByParent(r, n) ==
    r.type = "foreign_key" /\ r.table = n.parent /\ r.target_table = n.shape

HeldByChild(r, n) ==
    r.type = "foreign_key" /\ r.table = n.shape /\ r.target_table = n.parent

----------------------------------------------------------------------------
\* The type a column has after the values of seq were observed in order,
\* starting from type t.
RECURSIVE ObserveAll(_, _)
ObserveAll(t, seq) ==
    IF seq = <<>> THEN t ELSE ObserveAll(observe(t, Head(seq)), Tail(seq))

\* The orders in which n observations can arrive.
Orders(n) == {p \in [1..n -> 1..n] : \A i, j \in 1..n : i # j => p[i] # p[j]}

Reordered(seq, p) == [i \in 1..Len(seq) |-> seq[p[i]]]

\* observe is total on the five types and only widens.
UnifierTotal ==
    \A cur \in Types, v \in JsonValues :
        observe(cur, v) \in Types /\ Widens(cur, observe(cur, v))

\* The rules of the lattice, in both orders of arrival.
UnifierRules ==
    /\ \A cur \in Types \cup {Unobserved} : observe(cur, JsonNull) = cur
    /\ observe("integer", JsonFivePointTwo) = "real"
    /\ observe("real", JsonFive) = "real"
    /\ \A cur \in ScalarTypes : observe(cur, JsonString) = "text"
    /\ \A v \in {JsonTrue, JsonFive, JsonFivePointTwo} : observe("text", v) = "text"
    /\ \A cur \in Types :
          observe(cur, JsonLeafObject) = "json" /\ observe(cur, JsonLeafArray) = "json"
    /\ \A v \in JsonValues : observe("json", v) = "json"

\* The column's type is the one every order of its observations gives.
UnifierOrderFree ==
    \A p \in Orders(Len(observed)) :
        ObserveAll(Unobserved, Reordered(observed, p)) = colType

----------------------------------------------------------------------------
\* The session that the id returned by stage call c names.
SessionOf(c) == stores[idFromName(calls[c].resp.data_access_id)]

\* The type of the value column of a table: its rows' values, observed in
\* order by the Type Unifier.
ValueType(rows) ==
    ObserveAll(Unobserved,
               [i \in DOMAIN rows |-> [kind |-> "string", str |-> rows[i].val]])

\* The schema of a session: its table names, and for each table the
\* columns with their types and the row count.
SessionSchema(store) ==
    [t \in DOMAIN store.tables |->
        [columns |-> [id |-> "integer", val |-> ValueType(store.tables[t])],
         row_count |-> Len(store.tables[t])]]

\* Stage calls c1 and c2 staged the same JSON and both loaded it.
SameJsonStaged(c1, c2) ==
    /\ c1 # c2 /\ Loaded(c1) /\ Loaded(c2)
    /\ calls[c1].request = calls[c2].request

----------------------------------------------------------------------------
\* In every state: within a table no two rows have the same key.
C14_KeysUnique ==
    \A d \in DOMAIN stores :
        \A t \in DOMAIN stores[d].tables :
            \A i, j \in DOMAIN stores[d].tables[t] :
                i # j => stores[d].tables[t][i].id # stores[d].tables[t][j].id

\* In every step: a row that exists keeps its key, and a row that is added
\* gets the table's next integer, whatever `id` its object carries.
C14_KeyStep ==
    \A d \in DOMAIN stores' :
        \A t \in DOMAIN stores'[d].tables :
            \A i \in DOMAIN stores'[d].tables[t] :
                IF d \in DOMAIN stores
                   /\ t \in DOMAIN stores[d].tables
                   /\ i \in DOMAIN stores[d].tables[t]
                THEN stores'[d].tables[t][i].id = stores[d].tables[t][i].id
                ELSE stores'[d].tables[t][i].id = i

(* C14: within every table of a session no two rows have the same synthetic *)
(* primary key; the key of a row never changes once the row exists; and the *)
(* key of a new row is assigned by the engine (the table's next integer),   *)
(* not taken from an `id` of the JSON object.                               *)
C14_PrimaryKeys == []C14_KeysUnique /\ [][C14_KeyStep]_vars

\* A session was staged twice, the second time with two objects that both
\* carry id 7: its table holds three rows with the keys 1, 2, 3.
C14_Witness ==
    /\ Len(doLog) >= 2
    /\ doLog[1].path = "/process" /\ doLog[1].body = [data |-> Doc1] /\ doLog[1].ok
    /\ doLog[2].path = "/process" /\ doLog[2].body = [data |-> Doc3] /\ doLog[2].ok
    /\ TheInstance \in DOMAIN stores
    /\ Len(stores[TheInstance].tables["drugs"]) = 3
    /\ \A i \in 1..3 : stores[TheInstance].tables["drugs"][i].id = i
    /\ stores[TheInstance].tables["drugs"][3].val = "Bosutinib"

----------------------------------------------------------------------------
\* The call that is invoked in this step.
Invoked == calls'[Len(calls')]

\* This step invokes a tool of the given kind.
Invokes(kind) == Len(calls') > Len(calls) /\ Invoked.kind = kind

\* The upstream response declares JSON and its body does not parse.
Unparsable(r) == r.net /\ r.ctJson /\ ~r.parses

\* The step of a stage call whose upstream body does not parse.
C17_ParseFailureStep ==
    \A r \in UpstreamResponses :
        (Unparsable(r) /\ StageInvoke(r)) =>
            /\ Has(Invoked.resp, "details")
            /\ Invoked.resp.details =
                  <<"HTTP", r.status,
                    "Failed to parse JSON response. Body (truncated): ",
                    Slice(r.text, BodyTruncation)>>

(* C17: when the upstream response declares a JSON content type and its     *)
(* body fails to parse, the error executeGraphQLQuery throws (the details   *)
(* of the tool's error response) is 'HTTP <status>: Failed to parse JSON    *)
(* response.' followed by the first 200 characters of the body text.        *)
C17_ParseFailureMessage == [][C17_ParseFailureStep]_vars

----------------------------------------------------------------------------
\* A GraphQL result with errors and no data.
ErrorsNoData(result) == Has(result, "errors") /\ ~Has(result, "data")

\* Finished stage call c returned without an error response and without
\* having contacted a store.
Skipped(c) ==
    /\ IsStage(c) /\ Done(c) /\ calls[c].doReqs = 0
    /\ ~Has(calls[c].resp, "success")

\* In every state: an id is minted exactly for the calls that contact a
\* store; a skipped call returned errors without data; a returned id is the
\* call's own, for a result that was not errors without data.
C15_SkipState ==
    \A c \in CallIds :
        IsStage(c) =>
            /\ (calls[c].accessId = NoId) <=> (calls[c].doReqs = 0)
            /\ Skipped(c) => ErrorsNoData(calls[c].resp)
            /\ Has(calls[c].resp, "data_access_id") =>
                  /\ calls[c].resp.data_access_id = calls[c].accessId
                  /\ ~ErrorsNoData(calls[c].request)

\* The step in which the stage tool gets its GraphQL result: errors without
\* data are returned unchanged, nothing minted, no store touched; any other
\* result is posted to a store under a new id.
C15_UpstreamStep ==
    Invokes("stage") =>
        \A r \in UpstreamResponses :
            LET g == executeGraphQLQuery(r)
            IN (~g.thrown /\ StageInvoke(r)) =>
                  IF ErrorsNoData(g.value)
                  THEN /\ Invoked.pc = "done"
                       /\ Invoked.resp = g.value
                       /\ Invoked.accessId = NoId
                       /\ Invoked.doReqs = 0
                       /\ stores' = stores
                  ELSE binding =>
                       /\ Invoked.pc = "awaitDO"
                       /\ Invoked.accessId \in Ids \ UsedIds
                       /\ Invoked.request = g.value
                       /\ Invoked.doReqs = 1

\* The step in which the store replies to a stage call: the call's id is
\* returned unless the reply is not OK.
C15_ReplyStep ==
    \A c \in CallIds :
        (IsStage(c) /\ InFlight(c) /\ Returns(c)) =>
            IF Has(calls'[c].resp, "data_access_id")
            THEN calls'[c].resp.data_access_id = calls[c].accessId
            ELSE failStatus /\ calls'[c].resp.success = FALSE

(* C15: the stage tool skips staging exactly when the GraphQL result has    *)
(* errors and no data: that result is returned unchanged, no access id is   *)
(* minted and no store is contacted.  A result with data (with or without   *)
(* errors) is posted to a store under a new access id, and that id is       *)
(* returned when the store's reply is OK (a missing binding or a reply that *)
(* is not OK ends in an error response).                                    *)
C15_SkipExactlyOnErrorsNoData ==
    []C15_SkipState /\ [][C15_UpstreamStep /\ C15_ReplyStep]_vars

\* One call was skipped on errors without data, one staged data that came
\* with errors and one staged data alone; both of these returned their id.
C15_Witness ==
    \E c1, c2, c3 \in CallIds :
        /\ Skipped(c1) /\ calls[c1].resp = [errors |-> "api"]
        /\ ReturnedId(c2) /\ Has(calls[c2].request, "errors")
        /\ Has(calls[c2].request, "data")
        /\ ReturnedId(c3) /\ ~Has(calls[c3].request, "errors")
        /\ Has(calls[c3].request, "data")
        /\ calls[c2].resp.data_access_id # calls[c3].resp.data_access_id

----------------------------------------------------------------------------
GraphqlLabel == "GraphQL execution or data staging failed"
SqlLabel == "SQL execution failed"

\* resp is the body createErrorResponse builds: success = false, the
\* tool's error label and the details of the error.
IsErrorResponse(resp, label, details) ==
    /\ DOMAIN resp = {"success", "error", "details"}
    /\ resp.success = FALSE
    /\ resp.error = label
    /\ resp.details = details

\* In every state: a call is awaiting a store or has returned a response,
\* never an exception.
C16_ReturnsState ==
    \A c \in CallIds :
        /\ InFlight(c) \/ Done(c)
        /\ Done(c) => ~Has(calls[c].resp, "thrown")

\* The step in which a tool is invoked: an exception of executeGraphQLQuery
\* and a missing binding become the tool's error response.
C16_InvokeStep ==
    /\ Invokes("stage") =>
          \A r \in UpstreamResponses :
              LET g == executeGraphQLQuery(r)
              IN /\ (g.thrown /\ StageInvoke(r)) =>
                       IsErrorResponse(Invoked.resp, GraphqlLabel, g.message)
                 /\ (/\ ~binding /\ ~g.thrown /\ ~ErrorsNoData(g.value)
                     /\ StageInvoke(r)) =>
                       IsErrorResponse(Invoked.resp, GraphqlLabel,
                                       BindingMissing.message)
    /\ (Invokes("query") /\ ~binding) =>
          IsErrorResponse(Invoked.resp, SqlLabel, BindingMissing.message)
    /\ (Len(calls') > Len(calls) /\ Has(Invoked.resp, "success")) =>
          Invoked.pc = "done"

\* The store's reply to call c is not OK: failures are reported by status
\* and the load left the store unstaged, or the query has to fail.
ReplyNotOk(c) ==
    /\ failStatus
    /\ IF IsStage(c)
       THEN ~stores'[idFromName(calls[c].accessId)].staged
       ELSE QueryMustFail(c)

\* The step in which a store's reply that is not OK reaches the handler.
C16_ReplyStep ==
    \A c \in CallIds :
        (InFlight(c) /\ Returns(c) /\ ReplyNotOk(c)) =>
            /\ Has(calls'[c].resp, "details")
            /\ Len(calls'[c].resp.details) = 2
            /\ calls'[c].resp.details[2].success = FALSE
            /\ IF IsStage(c)
               THEN IsErrorResponse(calls'[c].resp, GraphqlLabel,
                        <<"Durable Object data staging failed",
                          calls'[c].resp.details[2]>>)
               ELSE IsErrorResponse(calls'[c].resp, SqlLabel,
                        <<"Durable Object SQL execution failed",
                          calls'[c].resp.details[2]>>)

(* C16: neither tool handler throws to its caller.  Every call returns a    *)
(* response; an exception of executeGraphQLQuery, a missing store binding   *)
(* and a store reply that is not OK each end in a response with             *)
(* success = false, the tool's error label and the error's message as       *)
(* details.                                                                 *)
C16_HandlersNeverThrow ==
    []C16_ReturnsState /\ [][C16_InvokeStep /\ C16_ReplyStep]_vars

\* With failures reported by status: a stage call whose upstream fetch
\* threw, a stage call whose store replied not OK and a query whose store
\* replied not OK have all returned error responses.
C16_Witness ==
    \E c1, c2, q \in CallIds :
        /\ failStatus
        /\ IsStage(c1) /\ Done(c1) /\ calls[c1].doReqs = 0
        /\ Has(calls[c1].resp, "success") /\ calls[c1].resp.error = GraphqlLabel
        /\ IsStage(c2) /\ Done(c2) /\ calls[c2].doReqs = 1
        /\ Has(calls[c2].resp, "success") /\ calls[c2].resp.error = GraphqlLabel
        /\ calls[c2].resp.details[1] = "Durable Object data staging failed"
        /\ IsQuery(q) /\ Done(q) /\ calls[q].doReqs = 1
        /\ Has(calls[q].resp, "error") /\ calls[q].resp.error = SqlLabel
        /\ calls[q].resp.details[1] = "Durable Object SQL execution failed"

====
